---- MODULE Spec2Model ----
(***************************************************************************)
(* A model of the ezcommon-frontend portal: the NextAuth credentials       *)
(* provider and its jwt/session callbacks, the server pages that guard on  *)
(* the session role, the /api/backend reverse proxy and the token/register *)
(* routes, the client page components that call the backend, and the       *)
(* DocumentParser parse run.                                               *)
(*                                                                         *)
(* JavaScript values: strings are TLA+ strings; null and undefined are the *)
(* two sentinels below; an absent number is NoNum.  URLs are sequences of  *)
(* pieces so that the trailing-slash rule acts on the last character.      *)
(***************************************************************************)
EXTENDS Integers, Sequences, FiniteSets, TLC

VARIABLES
    env,        \* process.env: BACKEND_URL and NEXT_PUBLIC_BACKEND_URL
    now,        \* Date.now(), in milliseconds
    cookie,     \* the NextAuth session cookie: the JWT token, or none
    auth,       \* the last credentials sign-in: input, backend answer, user
    page,       \* the last server page rendered and what it produced
    accepted,   \* backend state: <<org, student>> pairs with an accepted invitation
    px,         \* the last request handled by the /api/backend proxy
    rt,         \* the last request handled by a token/register route
    mounted,    \* the client component on screen, or "none"
    hasUser,    \* the session gives the id the component asks for
    cs,         \* the mounted component's React state
    inflight,   \* requests awaiting their answer, per kind of request
    sent,       \* requests sent so far, per kind
    runs,       \* times the code has called for a request, per kind
    triggers,   \* user actions taken so far
    last,       \* the last answer handled: what its handler did
    s3Files,        \* DocumentParser: the listed files, by key, in list order
    selectedFiles,  \* DocumentParser: the set of selected keys
    files,          \* DocumentParser: the FileItem rows of the last run
    isProcessing,   \* DocumentParser: a run is in progress
    isLoadingFiles, \* DocumentParser: a list load is in progress
    report,         \* DocumentParser: the last run's report, or none
    selectedSection, \* DocumentParser: the section filter
    run,            \* DocumentParser: the locals of processSelectedFiles
    jw,         \* the jwt callbacks in progress, one per request being handled
    jl,         \* the jwt callbacks so far: counts, the last begun, the last ended
    file,       \* user-store: the content of the data file, or missing
    us,         \* user-store: the calls in progress, each with its locals
    lookup      \* user-store: the last getUserByEmail and what it returned

serverVars == <<env, now, cookie, auth, page, accepted, px, rt>>

compVars == <<mounted, hasUser, cs, inflight, sent, runs, triggers, last>>

parseVars ==
    <<s3Files, selectedFiles, files, isProcessing, isLoadingFiles, report,
      selectedSection, run>>

clientVars == <<compVars, parseVars>>

jwtVars == <<jw, jl>>

storeVars == <<file, us, lookup>>

\* all that is not browser state
backVars == <<serverVars, jwtVars, storeVars>>

vars == <<serverVars, clientVars, jwtVars, storeVars>>

----------------------------------------------------------------------------
(* JavaScript values *)

Null == "<null>"
Undefined == "<undefined>"
NoNum == -1

Nullish(v) == v \in {Null, Undefined}

\* a ?? b
Coalesce(v, d) == IF Nullish(v) THEN d ELSE v

\* truthiness of a string-or-nullish value
Truthy(v) == v \notin {Null, Undefined, ""}

\* a || b
OrElse(v, d) == IF Truthy(v) THEN v ELSE d

\* truthiness of a number-or-undefined value
TruthyNum(n) == n # NoNum /\ n # 0

----------------------------------------------------------------------------
(* Bounds and program constants *)

MaxTick == 2

MinPasswordLen == 6
DefaultExpiresInS == 1800
RefreshMarginMs == 60000

TickMs == RefreshMarginMs \div 2
Instants == {k * TickMs : k \in 0..MaxTick}

----------------------------------------------------------------------------
(* lib/auth: the credentials provider *)

Roles == {"student", "org_admin", "org_staff", "admin", Undefined}
Orgs == {"org1", "org2"}
Students == {"s1"}

\* z.string().email(): the inputs are classified, not parsed
WellFormedEmails == {"kim@school.edu"}
IsEmail(e) == e \in WellFormedEmails

\* what signIn('credentials', ...) may carry
RawCredentials ==
    [email : {"kim@school.edu", "kim-at-school"},
     password : {"hunter22", "short"},
     remember : {Undefined, "true", "yes"},
     login_type : {Undefined, "student", "org", "admin"}]

\* credentialsSchema.safeParse(raw).success
SchemaOk(raw) ==
    /\ IsEmail(raw.email)
    /\ Len(raw.password) >= MinPasswordLen
    /\ raw.remember \in {Undefined, "true", "false"}
    /\ raw.login_type \in {Undefined, "student", "org"}

\* The JSON body of a backend token answer.  userPayload = data.user ?? data:
\* the user fields are read from whichever object carries them.
TokenBodies ==
    [id : {Undefined, "u1"},
     role : Roles,
     org_id : {Undefined, "org1"},
     access_token : {Undefined, "at1"},
     refresh_token : {"rt1"},
     expires_in : {NoNum, 30, 90}]

NoBody ==
    [id |-> Undefined, role |-> Undefined, org_id |-> Undefined,
     access_token |-> Undefined, refresh_token |-> Undefined, expires_in |-> NoNum]

\* an answer of POST /api/auth/login: the fetch rejects, answers non-OK,
\* answers OK with a body JSON.parse rejects or with the body null, or
\* answers OK with an object
LoginAnswers ==
    [kind : {"neterr", "notok", "badjson", "null"}, body : {NoBody}]
      \cup [kind : {"ok"}, body : TokenBodies]

NullUser ==
    [ok |-> FALSE, id |-> Undefined, role |-> Undefined, orgId |-> Undefined,
     remember |-> FALSE, accessToken |-> Undefined, refreshToken |-> Undefined,
     accessTokenExpiresIn |-> NoNum]

RoleMatchesAnyLogin(requestedLoginType, role) == TRUE

\* the two "return null" lines that enforce the login type
RoleMatches(requestedLoginType, role) ==
    LET isStudent == role = "student"
        isOrgUser == role = "org_admin" \/ role = "org_staff"
    IN  /\ ~(requestedLoginType = "student" /\ ~isStudent)
        /\ ~(requestedLoginType = "org" /\ ~isOrgUser)

\* authorize(raw) with the backend's answer to its one login call
authorize(raw, ans) ==
    IF ~SchemaOk(raw) THEN NullUser
    ELSE IF ans.kind # "ok" THEN NullUser
    ELSE LET requestedLoginType == Coalesce(raw.login_type, "student")
             role == Coalesce(ans.body.role, "student")
         IN  IF ~RoleMatches(requestedLoginType, role) THEN NullUser
             ELSE [ok |-> TRUE,
                   id |-> ans.body.id,
                   role |-> role,
                   orgId |-> Coalesce(ans.body.org_id, Null),
                   remember |-> (raw.remember = "true"),
                   accessToken |-> ans.body.access_token,
                   refreshToken |-> ans.body.refresh_token,
                   accessTokenExpiresIn |-> ans.body.expires_in]

----------------------------------------------------------------------------
(* lib/auth: the jwt and session callbacks *)

NoCookie ==
    [set |-> FALSE, sub |-> Undefined, role |-> Undefined, orgId |-> Undefined,
     accessToken |-> Undefined, refreshToken |-> Undefined,
     accessTokenExpires |-> NoNum]

\* the token NextAuth hands to the jwt callback at sign-in
FreshToken(user) == [NoCookie EXCEPT !.set = TRUE, !.sub = user.id]

\* an answer of POST /api/auth/refresh
RefreshBodies ==
    [id : {Undefined}, role : {Undefined}, org_id : {Undefined},
     access_token : {Undefined, "", "at2"},
     refresh_token : {Undefined, "rt2"},
     expires_in : {NoNum, 90}]

RefreshAnswers ==
    [kind : {"neterr", "notok", "badjson", "null"}, body : {NoBody}]
      \cup [kind : {"ok"}, body : RefreshBodies]

refreshAccessTokenKeepsExpiry(token, ans, t) ==
    IF ans.kind # "ok"
    THEN [token EXCEPT !.accessToken = Null]
    ELSE [token EXCEPT
             !.accessToken = ans.body.access_token,
             !.refreshToken = OrElse(ans.body.refresh_token, token.refreshToken),
             !.accessTokenExpires =
                 t + 1000 * (IF ans.body.expires_in = NoNum
                             THEN DefaultExpiresInS ELSE ans.body.expires_in)]

refreshAccessTokenTakesReturned(token, ans, t) ==
    IF ans.kind # "ok"
    THEN [token EXCEPT !.accessToken = Null, !.accessTokenExpires = 0]
    ELSE [token EXCEPT
             !.accessToken = ans.body.access_token,
             !.refreshToken = ans.body.refresh_token,
             !.accessTokenExpires =
                 t + 1000 * (IF ans.body.expires_in = NoNum
                             THEN DefaultExpiresInS ELSE ans.body.expires_in)]

\* refreshAccessToken(token) with the backend's answer to its refresh call
refreshAccessToken(token, ans, t) ==
    IF ans.kind # "ok"
    THEN [token EXCEPT !.accessToken = Null, !.accessTokenExpires = 0]
    ELSE LET expiresIn == IF ans.body.expires_in = NoNum
                          THEN DefaultExpiresInS ELSE ans.body.expires_in
             expiresInMs == expiresIn * 1000
         IN  [token EXCEPT
                 !.accessToken = ans.body.access_token,
                 !.refreshToken = OrElse(ans.body.refresh_token, token.refreshToken),
                 !.accessTokenExpires = t + expiresInMs]

\* the token after the two sign-in blocks of the jwt callback
JwtSignInPart(token, user, t) ==
    LET t1 == IF user.ok
              THEN [token EXCEPT !.sub = user.id,
                                 !.role = Coalesce(user.role, "student"),
                                 !.orgId = Coalesce(user.orgId, Null)]
              ELSE token
        expiresIn == IF user.accessTokenExpiresIn = NoNum
                     THEN DefaultExpiresInS ELSE user.accessTokenExpiresIn
    IN  IF user.ok /\ Truthy(user.accessToken)
        THEN [t1 EXCEPT !.accessToken = user.accessToken,
                        !.refreshToken = user.refreshToken,
                        !.accessTokenExpires = t + expiresIn * 1000]
        ELSE t1

NeedsRefreshAtMargin(token, t) ==
    TruthyNum(token.accessTokenExpires) /\ t >= token.accessTokenExpires - RefreshMarginMs

\* the condition under which the jwt callback calls refreshAccessToken
NeedsRefresh(token, t) ==
    TruthyNum(token.accessTokenExpires) /\ t > token.accessTokenExpires - RefreshMarginMs

\* callbacks.jwt({token, user}); ans is the backend's answer should it refresh
jwt(token, user, ans, t) ==
    LET t2 == JwtSignInPart(token, user, t)
    IN  IF NeedsRefresh(t2, t) THEN refreshAccessToken(t2, ans, t) ELSE t2

\* the backend's possible answers to the refresh call the jwt callback makes
\* for this token at time t; none is made when the token needs no refresh
NoAnswer == [kind |-> "none", body |-> NoBody]

RefreshAnswersFor(token, user, t) ==
    IF NeedsRefresh(JwtSignInPart(token, user, t), t) THEN RefreshAnswers ELSE {NoAnswer}

NoSession ==
    [present |-> FALSE, id |-> Undefined, role |-> Undefined, orgId |-> Undefined,
     accessToken |-> Undefined]

\* callbacks.session({session, token}); session.user is NextAuth's default user
session(token) ==
    [present |-> TRUE,
     id |-> IF Truthy(token.sub) THEN token.sub ELSE Undefined,
     role |-> IF Truthy(token.sub) THEN Coalesce(token.role, "student") ELSE Undefined,
     orgId |-> IF Truthy(token.sub) THEN Coalesce(token.orgId, Null) ELSE Undefined,
     accessToken |-> Coalesce(token.accessToken, Null)]

\* getServerSession(authOptions): no cookie gives null, else the jwt callback
\* (with no user) and then the session callback
getServerSession(ck, ans, t) ==
    IF ~ck.set THEN NoSession ELSE session(jwt(ck, NullUser, ans, t))

\* the users authorize can return, and the cookies a credentials sign-in at
\* time t can leave (NextAuth runs the jwt callback with the user and stores
\* the token it returns)
AuthorizedUsers ==
    {u \in {authorize(raw, la) : raw \in RawCredentials, la \in LoginAnswers} : u.ok}

SignedInCookies(t) ==
    UNION {{jwt(FreshToken(u), u, ra, t) : ra \in RefreshAnswersFor(FreshToken(u), u, t)} :
              u \in AuthorizedUsers}

----------------------------------------------------------------------------
(* State shared by the server-side specifications *)

BackendUrls ==
    { <<>>, <<"http://backend:8000">>, <<"http://backend:8000", "/">>,
      <<"http://backend:8000", "/", "/">> }

Envs == [BACKEND_URL : BackendUrls, NEXT_PUBLIC_BACKEND_URL : {<<>>, <<"http://backend:8000">>}]

NoAuth ==
    [done |-> FALSE,
     raw |-> [email |-> "kim@school.edu", password |-> "hunter22",
              remember |-> Undefined, login_type |-> Undefined],
     ans |-> [kind |-> "neterr", body |-> NoBody],
     user |-> NullUser,
     created |-> FALSE]

NoPage ==
    [name |-> "none", outcome |-> "none", present |-> FALSE, role |-> Undefined,
     orgId |-> Undefined, student |-> Undefined]

Methods == {"GET", "POST", "PUT", "PATCH", "DELETE", "OPTIONS"}
HeaderNames == {"host", "content-length", "authorization", "accept"}
Absent == "<absent>"

NoRequest ==
    [method |-> "GET", path |-> <<>>, search |-> <<>>,
     headers |-> [h \in HeaderNames |-> Absent], hasBody |-> FALSE]

NoOutbound ==
    [method |-> "GET", url |-> <<>>, headers |-> [h \in HeaderNames |-> Absent],
     hasBody |-> FALSE]

NoPx ==
    [handled |-> FALSE, req |-> NoRequest, sess |-> "none", sessionToken |-> Undefined,
     sent |-> <<>>, backend |-> "none", backendStatus |-> 0, result |-> "none",
     status |-> 0]

NoRt ==
    [handler |-> "none", bodyOk |-> TRUE, sent |-> 0, backend |-> "none",
     backendStatus |-> 0, result |-> "none", status |-> 0]

\* the client components modelled, by the name of their function
ReviewComponents == {"ActivityReview", "AllFilesReview"}
UploadComponents == {"TestingUpload", "ActivityUpload"}
Components ==
    ReviewComponents \cup UploadComponents \cup
    {"SectionFilePreview", "StudentInvitationsPage", "OrgInvitationsPage",
     "DocumentParser"}

\* the kinds of backend request the components make: "list" is the list
\* load of the component's loader or mount effect, "refresh" the list fetch
\* written inline after an invitation create or a voice transcription
Kinds ==
    {"list", "refresh", "delete", "accept", "reject", "search", "invite",
     "upload", "voice"}

NoneSent == [k \in Kinds |-> 0]

\* useState initial values: error null, lists empty, no file chosen
NoCs ==
    [error |-> Null, list |-> 0, found |-> 0, chosen |-> 0, nav |-> Null,
     uploading |-> FALSE, progress |-> 0]

NoAnswerYet == [status |-> "none", json |-> FALSE, files |-> 0]

NoLast ==
    [kind |-> "none", answer |-> NoAnswerYet, failed |-> FALSE,
     inline |-> Null, errorAfter |-> Null, alerted |-> FALSE,
     logged |-> FALSE, sentBy |-> {}]

NoReport == [present |-> FALSE, total_files |-> 0, successful |-> 0,
             failed |-> 0, total_chunks |-> 0, files |-> <<>>]

\* processSelectedFiles is not running; opened lists the keys an EventSource
\* was constructed for, listed and selected are the lists the run started from
NoRun ==
    [active |-> FALSE, started |-> FALSE, filesToProcess |-> <<>>, i |-> 0,
     stream |-> "none", parseResult |-> FALSE, results |-> <<>>,
     opened |-> <<>>, listed |-> <<>>, selected |-> {},
     sources |-> 0, chunks |-> NoNum, resultFor |-> {}]

Handlers == {"h1", "h2"}

NoJwt == [pc |-> "idle", signIn |-> FALSE, token |-> NoCookie, sent |-> Null]

NoJwtStart == [token |-> NoCookie, t |-> 0, sent |-> FALSE]

NoJwtEnd ==
    [refreshed |-> FALSE, before |-> NoCookie, ans |-> NoAnswer,
     after |-> NoCookie, concurrent |-> FALSE]

\* no jwt callback has run
JwtIdle ==
    /\ jw = [h \in Handlers |-> NoJwt]
    /\ jl = [calls |-> 0, needed |-> 0, refreshes |-> 0,
             start |-> NoJwtStart, end |-> NoJwtEnd]

Missing == "<missing>"

Callers == {"c1", "c2", "c3"}

NoCall == [pc |-> "idle", user |-> Null, users |-> <<>>]

NoLookup == [done |-> FALSE, email |-> Null, result |-> Null, quiet |-> FALSE]

\* no user-store call has run and the data file does not exist
StoreIdle ==
    /\ file = [content |-> Missing, before |-> <<>>]
    /\ us = [c \in Callers |-> NoCall]
    /\ lookup = NoLookup

\* no client component is on screen
ClientIdle ==
    /\ s3Files = <<>>
    /\ selectedFiles = {}
    /\ files = <<>>
    /\ isProcessing = FALSE
    /\ isLoadingFiles = FALSE
    /\ report = NoReport
    /\ selectedSection = "all"
    /\ run = NoRun
    /\ mounted = "none"
    /\ hasUser = FALSE
    /\ cs = NoCs
    /\ inflight = NoneSent
    /\ sent = NoneSent
    /\ runs = NoneSent
    /\ triggers = 0
    /\ last = NoLast

InitServer ==
    /\ ClientIdle
    /\ JwtIdle
    /\ StoreIdle
    /\ env \in Envs
    /\ now = 0
    /\ auth = NoAuth
    /\ page = NoPage
    /\ accepted = {}
    /\ px = NoPx
    /\ rt = NoRt

\* Date.now() moves on
Advance ==
    /\ \E t \in Instants : t > now /\ now' = t
    /\ UNCHANGED <<env, cookie, auth, page, accepted, px, rt, clientVars, jwtVars, storeVars>>

----------------------------------------------------------------------------
(* Sign-in: components/auth/login-form onSubmit calls signIn('credentials'),  *)
(* NextAuth calls authorize and, for a non-null user, the jwt callback, and *)
(* stores the token as the session cookie.                                  *)

SignInAccepted(raw, la, ra) ==
    LET user == authorize(raw, la)
    IN  /\ user.ok
        /\ cookie' = jwt(FreshToken(user), user, ra, now)
        /\ auth' = [done |-> TRUE, raw |-> raw, ans |-> la, user |-> user,
                    created |-> TRUE]

SignInRefused(raw, la) ==
    LET user == authorize(raw, la)
    IN  /\ ~user.ok
        /\ cookie' = cookie
        /\ auth' = [done |-> TRUE, raw |-> raw, ans |-> la, user |-> user,
                    created |-> FALSE]

\* the form is submitted once per visit of /auth/login
SignIn ==
    /\ ~auth.done
    /\ \E raw \in RawCredentials, la \in LoginAnswers :
          \/ \E ra \in RefreshAnswersFor(FreshToken(authorize(raw, la)), authorize(raw, la), now) :
                SignInAccepted(raw, la, ra)
          \/ SignInRefused(raw, la)
    /\ UNCHANGED <<env, now, page, accepted, px, rt, clientVars, jwtVars, storeVars>>

\* account-menu signOut({callbackUrl: '/auth/login'}): the session cookie is
\* cleared and the login page is shown afresh
SignOut ==
    /\ cookie.set
    /\ cookie' = NoCookie
    /\ auth' = NoAuth
    /\ UNCHANGED <<env, now, page, accepted, px, rt, clientVars, jwtVars, storeVars>>

\* /auth/login visited again after a refused sign-in: a fresh form
LoginPage ==
    /\ auth.done /\ ~cookie.set
    /\ auth' = NoAuth
    /\ UNCHANGED <<env, now, cookie, page, accepted, px, rt, clientVars, jwtVars, storeVars>>

InitAuth == InitServer /\ cookie = NoCookie

NextAuth == SignIn \/ SignOut \/ LoginPage \/ Advance

SpecAuth == InitAuth /\ [][NextAuth]_vars

----------------------------------------------------------------------------
(* The jwt callback step by step: it reads the token, sends the refresh   *)
(* call when the token is near expiry and waits for the answer; requests  *)
(* handled at the same time each run their own callback.                  *)

MaxJwtCalls == 2

\* the users the sign-ins of this part are made with
JwtUsers ==
    {u \in AuthorizedUsers :
        /\ u.id = "u1"
        /\ ~u.remember
        /\ u.role = "org_admin"
        /\ u.orgId = "org1"}

\* the tokens of the callbacks that wait for a refresh answer
WaitingTokens(except) ==
    {jw[h].token : h \in {g \in Handlers \ {except} : jw[g].pc = "waiting"}}

JoinsRefreshInFlight(token, waiting) == token \in waiting

\* whether a callback leaves its refresh to one already in flight for the
\* same token: refreshAccessToken keeps no record of calls in flight
JoinsRefresh(token, waiting) == FALSE

\* the callback of handler h begins on token t2 (the token after the
\* sign-in blocks): it sends the refresh call and waits, or returns t2
JwtBegun(h, t2, signIn) ==
    LET needed == NeedsRefresh(t2, now)
        sends == needed /\ ~JoinsRefresh(t2, WaitingTokens(h))
        begun == [token |-> t2, t |-> now, sent |-> sends]
    IN  /\ jl.calls < MaxJwtCalls
        /\ jw[h].pc = "idle"
        /\ IF needed
           THEN /\ jw' = [jw EXCEPT ![h] =
                            [pc |-> "waiting", signIn |-> signIn, token |-> t2,
                             sent |-> IF sends THEN t2.refreshToken ELSE Null]]
                /\ jl' = [jl EXCEPT !.calls = @ + 1, !.needed = @ + 1,
                                    !.refreshes = @ + (IF sends THEN 1 ELSE 0),
                                    !.start = begun]
                /\ UNCHANGED cookie
           ELSE /\ jw' = jw
                /\ jl' = [jl EXCEPT !.calls = @ + 1, !.start = begun,
                            !.end = [refreshed |-> FALSE, before |-> t2,
                                     ans |-> NoAnswer, after |-> t2,
                                     concurrent |-> WaitingTokens(h) # {}]]
                /\ cookie' = IF signIn THEN t2 ELSE cookie

\* a request with the session cookie is handled: getServerSession or
\* /api/auth/session runs the jwt callback with no user
JwtCall ==
    /\ cookie.set
    /\ \E h \in Handlers : JwtBegun(h, JwtSignInPart(cookie, NullUser, now), FALSE)
    /\ UNCHANGED <<env, now, auth, page, accepted, px, rt, clientVars, storeVars>>

\* a credentials sign-in: the jwt callback runs with the user on a new token
JwtSignIn ==
    /\ \E h \in Handlers, user \in JwtUsers :
          JwtBegun(h, JwtSignInPart(FreshToken(user), user, now), TRUE)
    /\ UNCHANGED <<env, now, auth, page, accepted, px, rt, clientVars, storeVars>>

\* the refresh call of handler h is answered and refreshAccessToken returns;
\* a sign-in stores the returned token as the cookie, another request may
\* or may not (a route handler's getServerSession cannot always set cookies)
JwtAnswer ==
    /\ \E h \in Handlers, ans \in RefreshAnswers, persist \in BOOLEAN :
          LET after == refreshAccessToken(jw[h].token, ans, now)
          IN  /\ jw[h].pc = "waiting"
              /\ jw[h].signIn => persist
              /\ jw' = [jw EXCEPT ![h] = NoJwt]
              /\ jl' = [jl EXCEPT !.end =
                          [refreshed |-> TRUE, before |-> jw[h].token,
                           ans |-> ans, after |-> after,
                           concurrent |-> WaitingTokens(h) # {}]]
              /\ cookie' = IF persist THEN after ELSE cookie
    /\ UNCHANGED <<env, now, auth, page, accepted, px, rt, clientVars, storeVars>>

\* nobody is signed in, or one of the users signed in at time 0
InitJwt ==
    /\ InitServer
    /\ env = [BACKEND_URL |-> <<"http://backend:8000">>, NEXT_PUBLIC_BACKEND_URL |-> <<>>]
    /\ cookie \in {NoCookie} \cup
           {c \in SignedInCookies(0) :
               c.sub = "u1" /\ c.role = "org_admin" /\ c.orgId = "org1"}

NextJwt == JwtCall \/ JwtSignIn \/ JwtAnswer \/ Advance

SpecJwt == InitJwt /\ [][NextJwt]_vars

----------------------------------------------------------------------------
(* Server pages that guard on the session *)

OrgRoleAdminOnly(role) == role = "org_admin"

\* role === 'org_admin' || role === 'org_staff'
IsOrgRole(role) == role = "org_admin" \/ role = "org_staff"

\* const role = user.role ?? 'student'
PageRole(s) == IF s.present THEN Coalesce(s.role, "student") ELSE "student"

\* app/org/layout: OrgRootLayout
OrgRootLayoutOutcome(s) ==
    IF ~s.present THEN "redirect:/auth/login"
    ELSE IF ~IsOrgRole(PageRole(s)) THEN "redirect:/"
    ELSE "org-layout"

\* an answer of GET <base>/api/auth/user/<id>; the request carries the id only
StudentAnswers == {"neterr", "notok", "ok"}

\* fetchStudent(userId): with NEXT_PUBLIC_BACKEND_URL unset the base is the
\* relative '/api/backend', which a server-side fetch rejects
fetchStudent(e, userId, ans) ==
    IF e.NEXT_PUBLIC_BACKEND_URL = <<>> THEN Null
    ELSE IF ans = "ok" THEN userId
    ELSE Null

StudentIdParams == Students \cup {"undefined", ""}

\* app/org/students/[id]/page: OrgStudentDetailPage
OrgStudentDetailOutcome(s, e, studentIdRaw, ans) ==
    IF ~s.present THEN "redirect:/auth/login"
    ELSE IF ~IsOrgRole(PageRole(s)) THEN "redirect:/"
    ELSE IF ~Truthy(studentIdRaw) \/ studentIdRaw = "undefined" THEN "redirect:/org/students"
    ELSE IF fetchStudent(e, studentIdRaw, ans) = Null THEN "student-not-found"
    ELSE "student-detail"

\* app/page: HomePage
HomePageOutcome(s) ==
    IF ~s.present THEN "redirect:/auth/login"
    ELSE IF IsOrgRole(PageRole(s)) THEN "redirect:/org/dashboard"
    ELSE "student-home"

Rendered(name, s, outcome, student) ==
    [name |-> name, outcome |-> outcome, present |-> s.present, role |-> s.role,
     orgId |-> s.orgId, student |-> student]

OrgRootLayout ==
    /\ \E ra \in RefreshAnswersFor(cookie, NullUser, now) :
          LET s == getServerSession(cookie, ra, now)
          IN  page' = Rendered("OrgRootLayout", s, OrgRootLayoutOutcome(s), Undefined)
    /\ UNCHANGED <<env, now, cookie, auth, accepted, px, rt, clientVars, jwtVars, storeVars>>

OrgStudentDetailPage ==
    /\ \E ra \in RefreshAnswersFor(cookie, NullUser, now), id \in StudentIdParams,
          ans \in StudentAnswers :
          LET s == getServerSession(cookie, ra, now)
              outcome == OrgStudentDetailOutcome(s, env, id, ans)
          IN  page' = Rendered("OrgStudentDetailPage", s, outcome,
                               IF outcome = "student-detail" THEN id ELSE Undefined)
    /\ UNCHANGED <<env, now, cookie, auth, accepted, px, rt, clientVars, jwtVars, storeVars>>

HomePage ==
    /\ \E ra \in RefreshAnswersFor(cookie, NullUser, now) :
          LET s == getServerSession(cookie, ra, now)
          IN  page' = Rendered("HomePage", s, HomePageOutcome(s), Undefined)
    /\ UNCHANGED <<env, now, cookie, auth, accepted, px, rt, clientVars, jwtVars, storeVars>>

\* the backend records an accepted invitation (a student's accept in
\* app/starter/invitations handleAction)
BackendAccept ==
    /\ \E o \in Orgs, st \in Students :
          /\ <<o, st>> \notin accepted
          /\ accepted' = accepted \cup {<<o, st>>}
    /\ UNCHANGED <<env, now, cookie, auth, page, px, rt, clientVars, jwtVars, storeVars>>

InitPages ==
    /\ InitServer
    /\ env.BACKEND_URL = <<"http://backend:8000">>
    /\ cookie \in {NoCookie} \cup SignedInCookies(0)

NextPages == OrgRootLayout \/ OrgStudentDetailPage \/ HomePage \/ BackendAccept \/ Advance

SpecPages == InitPages /\ [][NextPages]_vars

----------------------------------------------------------------------------
(* app/api/backend/[...path]/route: the reverse proxy *)

\* request.nextUrl.origin
RequestOrigin == <<"http://frontend:3000">>

StripAllTrailingSlashes(u) ==
    SelectSeq(u, LAMBDA piece : piece # "/")

\* backendBase.replace(/\/$/, '')
StripTrailingSlash(u) ==
    IF Len(u) > 0 /\ u[Len(u)] = "/" THEN SubSeq(u, 1, Len(u) - 1) ELSE u

\* (resolvedParams.path || []).join('/')
RECURSIVE JoinPath(_)
JoinPath(segs) ==
    IF segs = <<>> THEN <<>>
    ELSE IF Len(segs) = 1 THEN <<segs[1]>>
    ELSE <<segs[1], "/">> \o JoinPath(Tail(segs))

ProxyBackendBase(e) == IF e.BACKEND_URL # <<>> THEN e.BACKEND_URL ELSE RequestOrigin

TargetUrl(e, req) ==
    LET path == JoinPath(req.path)
        targetBase == StripTrailingSlash(ProxyBackendBase(e))
    IN  (IF path # <<>> THEN targetBase \o <<"/">> \o path ELSE targetBase) \o req.search

BodyMethods == {"POST", "PUT", "PATCH"}

\* the requests a caller may send to /api/backend/<path>?<query>
Requests ==
    {[method |-> m, path |-> pa, search |-> q,
      headers |-> [h \in HeaderNames |->
                      CASE h = "host" -> "frontend:3000"
                        [] h = "content-length" -> IF m \in BodyMethods THEN "12" ELSE Absent
                        [] h = "authorization" -> a
                        [] OTHER -> "*/*"],
      hasBody |-> m \in BodyMethods] :
        m \in Methods, pa \in {<<>>, <<"api", "user">>}, q \in {<<>>, <<"?id=1">>},
        a \in {Absent, "Bearer caller"}}

ForwardHeadersSessionOnly(req, threw, s) ==
    [h \in HeaderNames |->
        IF h \in {"host", "content-length"} THEN Absent
        ELSE IF h = "authorization"
             THEN (IF ~threw /\ s.present /\ Truthy(s.accessToken)
                   THEN "Bearer " \o s.accessToken ELSE Absent)
        ELSE req.headers[h]]

ForwardHeadersKeepCaller(req, threw, s) ==
    [h \in HeaderNames |->
        IF h \in {"host", "content-length"} THEN Absent
        ELSE IF h = "authorization" /\ ~threw /\ s.present /\ Truthy(s.accessToken)
                /\ req.headers[h] = Absent
             THEN "Bearer " \o s.accessToken
        ELSE req.headers[h]]

\* new Headers(request.headers) without host and content-length, and with the
\* session's bearer token when the session lookup gave a truthy accessToken
ForwardHeaders(req, threw, s) ==
    [h \in HeaderNames |->
        IF h \in {"host", "content-length"} THEN Absent
        ELSE IF h = "authorization" /\ ~threw /\ s.present /\ Truthy(s.accessToken)
             THEN "Bearer " \o s.accessToken
        ELSE req.headers[h]]

Statuses == {200, 401}

\* the backend's answer to the forwarded request: fetch rejects, or a status
BackendOutcomes == {0} \cup Statuses

\* proxy(request, context); bo = 0 is the fetch rejecting, which nothing in
\* the handler catches
ProxyHandled(req, threw, s, bo) ==
    [handled |-> TRUE,
     req |-> req,
     sess |-> IF threw THEN "threw" ELSE IF s.present THEN "ok" ELSE "none",
     sessionToken |-> IF threw \/ ~s.present THEN Undefined ELSE s.accessToken,
     sent |-> << [method |-> req.method, url |-> TargetUrl(env, req),
                  headers |-> ForwardHeaders(req, threw, s),
                  hasBody |-> req.method \notin {"GET", "HEAD"}] >>,
     backend |-> IF bo = 0 THEN "neterr" ELSE "answered",
     backendStatus |-> bo,
     result |-> IF bo = 0 THEN "threw" ELSE "response",
     status |-> bo]

\* One request through the proxy; the session lookup may throw.  The model
\* follows one server request at a time: the handlers share no state.
Proxy ==
    /\ ~px.handled /\ rt.handler = "none"
    /\ \E req \in Requests, threw \in BOOLEAN, bo \in BackendOutcomes,
          ra \in RefreshAnswersFor(cookie, NullUser, now) :
          px' = ProxyHandled(req, threw, getServerSession(cookie, ra, now), bo)
    /\ UNCHANGED <<env, now, cookie, auth, page, accepted, rt, clientVars, jwtVars, storeVars>>

\* the response (or the escaped error) has left the handler
ProxyReturn ==
    /\ px.handled
    /\ px' = NoPx
    /\ UNCHANGED <<env, now, cookie, auth, page, accepted, rt, clientVars, jwtVars, storeVars>>

----------------------------------------------------------------------------
(* app/api/token/login, app/api/token/refresh, app/api/auth/register *)

\* the token routes: request.json().catch(() => ({})), one fetch, the
\* backend's status passed on; the catch answers 500
TokenRouteHandled(handler, bodyOk, bo) ==
    [handler |-> handler, bodyOk |-> bodyOk, sent |-> 1,
     backend |-> IF bo = 0 THEN "neterr" ELSE "answered",
     backendStatus |-> bo,
     result |-> "response",
     status |-> IF bo = 0 THEN 500 ELSE bo]

\* register: request.json() is awaited inside the try, so a body that is
\* not JSON is answered 500 without a backend call
RegisterHandled(bodyOk, bo) ==
    IF ~bodyOk
    THEN [handler |-> "register", bodyOk |-> FALSE, sent |-> 0, backend |-> "none",
          backendStatus |-> 0, result |-> "response", status |-> 500]
    ELSE [handler |-> "register", bodyOk |-> TRUE, sent |-> 1,
          backend |-> IF bo = 0 THEN "neterr" ELSE "answered",
          backendStatus |-> bo,
          result |-> "response",
          status |-> IF bo = 0 THEN 500 ELSE bo]

TokenRefreshRoute ==
    /\ rt.handler = "none" /\ ~px.handled
    /\ \E bodyOk \in BOOLEAN, bo \in BackendOutcomes :
          rt' = TokenRouteHandled("token/refresh", bodyOk, bo)
    /\ UNCHANGED <<env, now, cookie, auth, page, accepted, px, clientVars, jwtVars, storeVars>>

TokenLoginRoute ==
    /\ rt.handler = "none" /\ ~px.handled
    /\ \E bodyOk \in BOOLEAN, bo \in BackendOutcomes :
          rt' = TokenRouteHandled("token/login", bodyOk, bo)
    /\ UNCHANGED <<env, now, cookie, auth, page, accepted, px, clientVars, jwtVars, storeVars>>

RegisterRoute ==
    /\ rt.handler = "none" /\ ~px.handled
    /\ \E bodyOk \in BOOLEAN, bo \in BackendOutcomes :
          rt' = RegisterHandled(bodyOk, bo)
    /\ UNCHANGED <<env, now, cookie, auth, page, accepted, px, clientVars, jwtVars, storeVars>>

RouteReturn ==
    /\ rt.handler # "none"
    /\ rt' = NoRt
    /\ UNCHANGED <<env, now, cookie, auth, page, accepted, px, clientVars, jwtVars, storeVars>>

InitProxy ==
    /\ InitServer
    /\ env.NEXT_PUBLIC_BACKEND_URL = <<>>
    /\ cookie \in {NoCookie} \cup
                  {c \in SignedInCookies(0) :
                      c.role = "student" /\ c.sub = "u1" /\ c.orgId = Null}

NextProxy ==
    \/ Proxy \/ ProxyReturn
    \/ TokenRefreshRoute \/ TokenLoginRoute \/ RegisterRoute \/ RouteReturn
    \/ Advance

SpecProxy == InitProxy /\ [][NextProxy]_vars

----------------------------------------------------------------------------
(* Client components.  One component is on screen; its handlers send a     *)
(* request and return, and the answer is handled in a later step.          *)

MaxTriggers == 2
MaxList == 2
MaxChosen == 1

\* the backend's answer to a fetch: an OK response carrying a JSON list, a
\* non-OK response whose body is or is not JSON, or a rejected fetch
Answers ==
    [status : {"ok"}, json : {TRUE}, files : 0..MaxList]
      \cup [status : {"notok"}, json : BOOLEAN, files : {0}]
      \cup [status : {"neterr"}, json : {FALSE}, files : {0}]

FailedOnlyOffline(a) == a.status = "neterr"

Failed(a) == a.status # "ok"

\* the message of the TypeError a rejected fetch throws
NetErrText == "Failed to fetch"
\* the message of the SyntaxError response.json() throws on a non-JSON body
JsonErrText == "Unexpected token"

Inc(f, ks) == [k \in DOMAIN f |-> IF k \in ks THEN f[k] + 1 ELSE f[k]]

\* what a component sends again after a request failed
RetryOnce(kind) == {kind}

\* no catch block of a component calls its request again
FailureResend(kind) == {}

CatchTextDropped(message, fallback) == Null

\* err.message || 'fallback', the text a catch block gives setError
CatchText(message, fallback) == OrElse(message, fallback)

\* the thrown message of a failed answer: the text of the throw statement on
\* a non-OK status, the fetch TypeError's on a network error
Thrown(a, onNotOk) == IF a.status = "notok" THEN onNotOk ELSE NetErrText

\* a handler, started by the user, calls fetch for one request of this kind
UserFetchCore(kind, cs1) ==
    /\ triggers < MaxTriggers
    /\ triggers' = triggers + 1
    /\ runs' = Inc(runs, {kind})
    /\ sent' = Inc(sent, {kind})
    /\ inflight' = Inc(inflight, {kind})
    /\ cs' = cs1
    /\ UNCHANGED <<mounted, hasUser, last, backVars>>

\* a handler started by the user returns at a guard, sending nothing
UserNoFetchCore(cs1) ==
    /\ triggers < MaxTriggers
    /\ triggers' = triggers + 1
    /\ cs' = cs1
    /\ UNCHANGED <<mounted, hasUser, inflight, sent, runs, last, backVars>>

\* the component c is rendered and its mount effect runs: it sends the
\* requests in kinds, or none
MountingCore(c, user, cs1, kinds) ==
    /\ mounted = "none"
    /\ mounted' = c
    /\ hasUser' = user
    /\ cs' = cs1
    /\ runs' = Inc(runs, kinds)
    /\ sent' = Inc(sent, kinds)
    /\ inflight' = Inc(inflight, kinds)
    /\ UNCHANGED <<triggers, last, backVars>>

\* the answer a to a request of this kind is handled: the state becomes
\* upd, with error set to shown when the handler calls setError(shown); the
\* handler calls fetch for the requests in follow
CompleteCore(kind, a, upd, shown, follow, alerted, logged) ==
    LET again == IF Failed(a) THEN FailureResend(kind) ELSE {}
    IN  /\ inflight[kind] > 0
        /\ inflight' = Inc(Inc([inflight EXCEPT ![kind] = @ - 1], follow), again)
        /\ sent' = Inc(Inc(sent, follow), again)
        /\ runs' = Inc(runs, follow)
        /\ cs' = IF shown = Null THEN upd ELSE [upd EXCEPT !.error = shown]
        /\ last' = [kind |-> kind, answer |-> a, failed |-> Failed(a),
                    inline |-> shown,
                    errorAfter |-> IF shown = Null THEN upd.error ELSE shown,
                    alerted |-> alerted, logged |-> logged,
                    sentBy |-> follow \cup again]
        /\ UNCHANGED <<mounted, hasUser, triggers, backVars>>

\* the same, in a component other than DocumentParser
UserFetch(kind, cs1) == UserFetchCore(kind, cs1) /\ UNCHANGED parseVars

UserNoFetch(cs1) == UserNoFetchCore(cs1) /\ UNCHANGED parseVars

Mounting(c, user, cs1, kinds) ==
    MountingCore(c, user, cs1, kinds) /\ UNCHANGED parseVars

Complete(kind, a, upd, shown, follow, alerted, logged) ==
    /\ CompleteCore(kind, a, upd, shown, follow, alerted, logged)
    /\ UNCHANGED parseVars

ListEditedLocally(list) == IF list > 0 THEN list - 1 ELSE list

\* the list a component shows after its delete or accept/reject request
\* succeeded: handleDelete and handleAction call no setFiles or
\* setInvitations themselves, the list waits for the list fetch they start
ListAfterChange(list) == list

(* ActivityReview and AllFilesReview *)

\* the mount effect: without a user id the error is set, else fetchFiles
\* (fetchAllFiles) clears the error and sends the list request
Review_Mount ==
    \E c \in ReviewComponents, user \in BOOLEAN :
        IF user
        THEN Mounting(c, user, NoCs, {"list"})
        ELSE Mounting(c, user,
                 [NoCs EXCEPT !.error = "Please log in to view your files"], {})

Review_fetchFilesDone ==
    /\ mounted \in ReviewComponents
    /\ \E a \in Answers :
        IF Failed(a)
        THEN Complete("list", a, cs,
                 CatchText(Thrown(a, "Failed to fetch files"), "Failed to load files"),
                 {}, FALSE, FALSE)
        ELSE Complete("list", a, [cs EXCEPT !.list = a.files], Null,
                 {}, FALSE, FALSE)

\* a file row's delete button, confirmed
Review_handleDelete ==
    /\ mounted \in ReviewComponents
    /\ hasUser
    /\ cs.list > 0
    /\ UserFetch("delete", [cs EXCEPT !.error = Null])

\* on success handleDelete awaits fetchFiles, which clears the error and
\* sends the list request
Review_handleDeleteDone ==
    /\ mounted \in ReviewComponents
    /\ \E a \in Answers :
        IF Failed(a)
        THEN Complete("delete", a, cs,
                 CatchText(Thrown(a, "Failed to delete file"), "Failed to delete file"),
                 {}, FALSE, FALSE)
        ELSE Complete("delete", a,
                 [cs EXCEPT !.error = Null, !.list = ListAfterChange(cs.list)],
                 Null, {"list"}, FALSE, FALSE)

(* SectionFilePreview *)

SectionFilePreview_Mount ==
    \E user \in BOOLEAN :
        Mounting("SectionFilePreview", user, NoCs, IF user THEN {"list"} ELSE {})

SectionFilePreview_fetchFilesDone ==
    /\ mounted = "SectionFilePreview"
    /\ \E a \in Answers :
        IF Failed(a)
        THEN Complete("list", a, cs,
                 CatchText(Thrown(a, "Failed to fetch files: "), "Failed to load files"),
                 {}, FALSE, TRUE)
        ELSE Complete("list", a, [cs EXCEPT !.list = a.files], Null,
                 {}, FALSE, FALSE)

SectionFilePreview_handleDelete ==
    /\ mounted = "SectionFilePreview"
    /\ hasUser
    /\ cs.list > 0
    /\ UserFetch("delete", cs)

\* the catch block of handleDelete calls alert() and sets no error
SectionFilePreview_handleDeleteDone ==
    /\ mounted = "SectionFilePreview"
    /\ \E a \in Answers :
        IF Failed(a)
        THEN Complete("delete", a, cs, Null, {}, TRUE, FALSE)
        ELSE Complete("delete", a,
                 [cs EXCEPT !.error = Null, !.list = ListAfterChange(cs.list)],
                 Null, {"list"}, FALSE, FALSE)

(* StudentInvitationsPage *)

StudentInvitations_Mount ==
    \E user \in BOOLEAN :
        Mounting("StudentInvitationsPage", user, NoCs,
                 IF user THEN {"list"} ELSE {})

StudentInvitations_loadInvitesDone ==
    /\ mounted = "StudentInvitationsPage"
    /\ \E a \in Answers :
        IF Failed(a)
        THEN Complete("list", a, cs,
                 CatchText(Thrown(a, "Failed to load invitations"),
                           "Failed to load invitations"),
                 {}, FALSE, TRUE)
        ELSE Complete("list", a, [cs EXCEPT !.list = a.files], Null,
                 {}, FALSE, FALSE)

\* the Accept or Reject button of a pending invitation
StudentInvitations_handleAction ==
    /\ mounted = "StudentInvitationsPage"
    /\ hasUser
    /\ cs.list > 0
    /\ \E action \in {"accept", "reject"} :
           UserFetch(action, [cs EXCEPT !.error = Null])

\* a non-OK answer throws the body's detail, or 'Failed to <action>
\* invitation' when the body is not JSON or has no detail; on success
\* loadInvites runs again
StudentInvitations_handleActionDone ==
    /\ mounted = "StudentInvitationsPage"
    /\ \E action \in {"accept", "reject"}, a \in Answers :
        IF Failed(a)
        THEN \E detail \in (IF a.json THEN {"", "Invitation not found"} ELSE {""}) :
               Complete(action, a, cs,
                   CatchText(Thrown(a, OrElse(detail, "Failed to " \o action \o " invitation")),
                             "Operation failed"),
                   {}, FALSE, TRUE)
        ELSE Complete(action, a,
                 [cs EXCEPT !.error = Null, !.list = ListAfterChange(cs.list)],
                 Null, {"list"}, FALSE, FALSE)

(* OrgInvitationsPage *)

\* the mount effect returns without an org id, else sends the list request
OrgInvitations_Mount ==
    \E user \in BOOLEAN :
        Mounting("OrgInvitationsPage", user, NoCs,
                 IF user THEN {"list"} ELSE {})

\* the effect's catch block only calls console.error
OrgInvitations_loadInvitesDone ==
    /\ mounted = "OrgInvitationsPage"
    /\ \E a \in Answers :
        IF Failed(a)
        THEN Complete("list", a, cs, Null, {}, FALSE, TRUE)
        ELSE Complete("list", a, [cs EXCEPT !.list = a.files], Null,
                 {}, FALSE, FALSE)

\* the search form, submitted with a non-blank query
OrgInvitations_handleSearch ==
    /\ mounted = "OrgInvitationsPage"
    /\ UserFetch("search", [cs EXCEPT !.error = Null])

OrgInvitations_handleSearchDone ==
    /\ mounted = "OrgInvitationsPage"
    /\ \E a \in Answers :
        IF Failed(a)
        THEN Complete("search", a, cs,
                 CatchText(Thrown(a, "Failed to search students"), "Search failed"),
                 {}, FALSE, TRUE)
        ELSE Complete("search", a, [cs EXCEPT !.found = a.files], Null,
                 {}, FALSE, FALSE)

\* the Invite button of a search result
OrgInvitations_handleInvite ==
    /\ mounted = "OrgInvitationsPage"
    /\ hasUser
    /\ cs.found > 0
    /\ UserFetch("invite", [cs EXCEPT !.error = Null])

\* on success handleInvite fetches the invitation list itself
OrgInvitations_handleInviteDone ==
    /\ mounted = "OrgInvitationsPage"
    /\ \E a \in Answers :
        IF Failed(a)
        THEN \E detail \in (IF a.json THEN {"", "Already invited"} ELSE {""}) :
               Complete("invite", a, cs,
                   CatchText(Thrown(a, OrElse(detail, "Failed to create invitation")),
                             "Failed to send invitation"),
                   {}, FALSE, TRUE)
        ELSE Complete("invite", a, cs, Null, {"refresh"}, FALSE, FALSE)

\* the list refresh of handleInvite: if (listRes.ok) the list is replaced,
\* a non-OK answer is passed over, a rejected fetch reaches the catch block
OrgInvitations_handleInviteRefreshDone ==
    /\ mounted = "OrgInvitationsPage"
    /\ \E a \in Answers :
        CASE a.status = "ok" ->
               Complete("refresh", a, [cs EXCEPT !.list = a.files], Null,
                   {}, FALSE, FALSE)
          [] a.status = "notok" ->
               Complete("refresh", a, cs, Null, {}, FALSE, FALSE)
          [] OTHER ->
               Complete("refresh", a, cs,
                   CatchText(NetErrText, "Failed to send invitation"),
                   {}, FALSE, TRUE)

(* TestingUpload and ActivityUpload *)

\* router.push after a successful upload
NextRoute(c) == IF c = "TestingUpload" THEN "/" ELSE "/starter/testing/upload"

\* the existing-files effect sends the list request when there is a user id
Upload_Mount ==
    \E c \in UploadComponents, user \in BOOLEAN :
        Mounting(c, user, NoCs, IF user THEN {"list"} ELSE {})

\* fetch(...).then(r => r.json()).then(data => setExisting(data.files || []))
\* .catch(() => {}): any JSON body replaces the list, whatever the status;
\* a rejection or a non-JSON body is swallowed
Upload_existingDone ==
    /\ mounted \in UploadComponents
    /\ \E a \in Answers :
        IF a.json
        THEN Complete("list", a, [cs EXCEPT !.list = a.files], Null,
                 {}, FALSE, FALSE)
        ELSE Complete("list", a, cs, Null, {}, FALSE, FALSE)

\* onSelect / onDrop add files to the selection
Upload_onSelect ==
    /\ mounted \in UploadComponents
    /\ cs.nav = Null
    /\ cs.chosen < MaxChosen
    /\ cs' = [cs EXCEPT !.chosen = @ + 1]
    /\ UNCHANGED <<mounted, hasUser, inflight, sent, runs, triggers, last, backVars, parseVars>>

\* the Submit button, disabled while uploading
Upload_handleSubmit ==
    /\ mounted \in UploadComponents
    /\ cs.nav = Null
    /\ ~cs.uploading
    /\ IF ~hasUser
       THEN UserNoFetch([cs EXCEPT !.error = "Missing user id in session"])
       ELSE IF cs.chosen = 0
       THEN UserNoFetch([cs EXCEPT !.error = "Please select at least one file"])
       ELSE UserFetch("upload", [cs EXCEPT !.error = Null, !.uploading = TRUE])

\* xhr.upload.onprogress
Upload_onprogress ==
    /\ mounted \in UploadComponents
    /\ inflight["upload"] > 0
    /\ \E pct \in {50, 100} :
           /\ cs.progress < pct
           /\ cs' = [cs EXCEPT !.progress = pct]
    /\ UNCHANGED <<mounted, hasUser, inflight, sent, runs, triggers, last, backVars, parseVars>>

\* xhr.onload with a 2xx status resolves and the router navigates; another
\* status rejects with 'Upload failed', xhr.onerror with 'Network error';
\* finally uploading is false and progress 0
Upload_handleSubmitDone ==
    /\ mounted \in UploadComponents
    /\ \E a \in Answers :
        LET done == [cs EXCEPT !.uploading = FALSE, !.progress = 0]
        IN  IF Failed(a)
            THEN Complete("upload", a, done,
                     CatchText(IF a.status = "notok" THEN "Upload failed"
                               ELSE "Network error", "Upload failed"),
                     {}, FALSE, FALSE)
            ELSE Complete("upload", a, [done EXCEPT !.nav = NextRoute(mounted)],
                     Null, {}, FALSE, FALSE)

\* ActivityUpload: the recorder stops and hands over the recording
ActivityUpload_handleVoiceUpload ==
    /\ mounted = "ActivityUpload"
    /\ cs.nav = Null
    /\ ~cs.uploading
    /\ IF hasUser THEN UserFetch("voice", cs) ELSE UserNoFetch(cs)

\* on success the list is fetched inline
ActivityUpload_handleVoiceUploadDone ==
    /\ mounted = "ActivityUpload"
    /\ \E a \in Answers :
        IF Failed(a)
        THEN Complete("voice", a, cs,
                 CatchText(Thrown(a, "Transcription failed: "), "Voice processing failed"),
                 {}, FALSE, FALSE)
        ELSE Complete("voice", a, cs, Null, {"refresh"}, FALSE, FALSE)

\* the list refresh of handleVoiceUpload reads listRes.json() without
\* looking at the status
ActivityUpload_handleVoiceRefreshDone ==
    /\ mounted = "ActivityUpload"
    /\ \E a \in Answers :
        CASE a.json ->
               Complete("refresh", a, [cs EXCEPT !.list = a.files], Null,
                   {}, FALSE, FALSE)
          [] a.status = "notok" ->
               Complete("refresh", a, cs,
                   CatchText(JsonErrText, "Voice processing failed"),
                   {}, FALSE, FALSE)
          [] OTHER ->
               Complete("refresh", a, cs,
                   CatchText(NetErrText, "Voice processing failed"),
                   {}, FALSE, FALSE)

(* DocumentParser *)

Keys == {"a.pdf", "b.pdf"}
Sections == {"all", "activity"}

Range(q) == {q[j] : j \in DOMAIN q}

\* the answers of GET /api/parse/files: lists without a repeated key
Listings ==
    {q \in UNION {[1..n -> Keys] : n \in 0..Cardinality(Keys)} :
        Cardinality(Range(q)) = Len(q)}

\* s3Files.filter(f => selectedFiles.has(f.key))
FilesToProcess(listed, selected) ==
    LET Chosen(k) == k \in selected IN SelectSeq(listed, Chosen)

\* filesToProcess.map(f => ({ s3_file: f, status: 'pending', progress: 0 }))
FileItems(ftp) ==
    [j \in DOMAIN ftp |-> [key |-> ftp[j], status |-> "pending", progress |-> 0,
                            result |-> NoNum]]

SetFileEveryRow(fs, i, status, progress) ==
    [j \in DOMAIN fs |-> [fs[j] EXCEPT !.status = status, !.progress = progress]]

\* setFiles(prev => prev.map((f, idx) => idx === i ? { ...f, ...change } : f))
SetFile(fs, i, status, progress) ==
    [j \in DOMAIN fs |->
        IF j = i THEN [fs[j] EXCEPT !.status = status, !.progress = progress]
        ELSE fs[j]]

\* ...prev.map((f, idx) => idx === i ? { ...f, result: finalResult } : f);
\* the result is written by its chunks_created
WithResult(fs, i, chunks_created) ==
    [j \in DOMAIN fs |-> IF j = i THEN [fs[j] EXCEPT !.result = chunks_created] ELSE fs[j]]

CurrentFileLive(r, listed, selected) ==
    LET live == FilesToProcess(listed, selected)
    IN  IF r.i \in DOMAIN live THEN live[r.i] ELSE r.filesToProcess[r.i]

\* const s3File = filesToProcess[i]: the array captured when the run began,
\* whatever s3Files and selectedFiles hold now
CurrentFile(r, listed, selected) == r.filesToProcess[r.i]

ReconnectOnError(key) == <<key>>

\* the streams constructed after a stream has closed: onerror and both
\* closing messages call eventSource.close(), which ends reconnection
Reconnect(key) == <<>>

\* chunks_created of a result message
ChunkCounts == {0, 2}

ChunksOrOne(n) == IF TruthyNum(n) THEN n ELSE 1

\* r.chunks || 0
ChunksOrZero(n) == IF TruthyNum(n) THEN n ELSE 0

\* results.filter(r => r.status === 'success')
\*        .reduce((sum, r) => sum + (r.chunks || 0), 0)
RECURSIVE TotalChunks(_)
TotalChunks(results) ==
    IF results = <<>> THEN 0
    ELSE (IF results[1].status = "success" THEN ChunksOrZero(results[1].chunks) ELSE 0)
         + TotalChunks(Tail(results))

\* the report built from the results array
MakeReport(ftp, results) ==
    [present |-> TRUE, total_files |-> Len(ftp),
     successful |-> Cardinality({j \in DOMAIN results : results[j].status = "success"}),
     failed |-> Cardinality({j \in DOMAIN results : results[j].status = "error"}),
     total_chunks |-> TotalChunks(results),
     files |-> results]

ParseDisabledWhenEmpty(processing, selected) == selected = {}

\* the Parse button: disabled={isProcessing || selectedFiles.size === 0}
ParseDisabled(processing, selected) == processing \/ selected = {}

ReadyStateConnecting(stream) == stream = "connecting"

\* eventSource.readyState === EventSource.CLOSED
ReadyStateClosed(stream) == stream = "closed"

\* the loop body up to the wait: row i becomes 'processing' and an
\* EventSource is constructed for filesToProcess[i]
BeginFile(r, fs) ==
    /\ files' = SetFile(fs, r.i, "processing", 0)
    /\ run' = [r EXCEPT !.stream = "open", !.parseResult = FALSE,
                        !.chunks = NoNum, !.sources = @ + 1,
                        !.opened = Append(@, CurrentFile(r, s3Files, selectedFiles))]

\* the mount effect calls loadS3Files: an alert without a user id, else the
\* list request
DocumentParser_Mount ==
    \E user \in BOOLEAN :
        /\ MountingCore("DocumentParser", user, NoCs, IF user THEN {"list"} ELSE {})
        /\ isLoadingFiles' = user
        /\ UNCHANGED <<s3Files, selectedFiles, files, isProcessing, report,
                       selectedSection, run>>

\* the reload button, disabled while a list load is in progress
DocumentParser_loadS3Files ==
    /\ mounted = "DocumentParser"
    /\ ~isLoadingFiles
    /\ IF hasUser
       THEN UserFetchCore("list", cs) /\ isLoadingFiles' = TRUE
       ELSE UserNoFetchCore(cs) /\ UNCHANGED isLoadingFiles
    /\ UNCHANGED <<s3Files, selectedFiles, files, isProcessing, report,
                   selectedSection, run>>

\* a section button: the section changes and the effect calls loadS3Files
DocumentParser_setSelectedSection ==
    /\ mounted = "DocumentParser"
    /\ \E section \in Sections \ {selectedSection} : selectedSection' = section
    /\ IF hasUser
       THEN UserFetchCore("list", cs) /\ isLoadingFiles' = TRUE
       ELSE UserNoFetchCore(cs) /\ UNCHANGED isLoadingFiles
    /\ UNCHANGED <<s3Files, selectedFiles, files, isProcessing, report, run>>

\* the list answer: setS3Files(data), or the catch block's console.error
\* and alert; finally isLoadingFiles is false
DocumentParser_loadS3FilesDone ==
    /\ mounted = "DocumentParser"
    /\ \E a \in Answers :
        IF Failed(a)
        THEN /\ CompleteCore("list", a, cs, Null, {}, TRUE, TRUE)
             /\ UNCHANGED s3Files
        ELSE /\ CompleteCore("list", a, cs, Null, {}, FALSE, FALSE)
             /\ \E listing \in Listings :
                    Len(listing) = a.files /\ s3Files' = listing
    /\ isLoadingFiles' = FALSE
    /\ UNCHANGED <<selectedFiles, files, isProcessing, report, selectedSection, run>>

\* a user action of DocumentParser that sends nothing and changes the
\* selection only
Selecting(selected) ==
    /\ mounted = "DocumentParser"
    /\ selectedFiles' = selected
    /\ UNCHANGED <<compVars, backVars, s3Files, files, isProcessing,
                   isLoadingFiles, report, selectedSection, run>>

\* a click on a listed file's row
DocumentParser_toggleFileSelection ==
    \E key \in Range(s3Files) :
        Selecting(IF key \in selectedFiles THEN selectedFiles \ {key}
                  ELSE selectedFiles \cup {key})

DocumentParser_selectAll == Selecting(Range(s3Files))

DocumentParser_deselectAll == Selecting({})

\* the Parse button, disabled while processing or with nothing selected:
\* the run captures filesToProcess and begins its first file; with no
\* selected file listed the loop is skipped and the report is set at once
DocumentParser_processSelectedFiles ==
    /\ mounted = "DocumentParser"
    /\ ~ParseDisabled(isProcessing, selectedFiles)
    /\ hasUser
    /\ triggers < MaxTriggers
    /\ triggers' = triggers + 1
    /\ LET ftp == FilesToProcess(s3Files, selectedFiles)
           r == [NoRun EXCEPT !.active = TRUE, !.started = TRUE,
                              !.filesToProcess = ftp, !.i = 1,
                              !.listed = s3Files, !.selected = selectedFiles,
                              !.sources = run.sources]
       IN  IF ftp = <<>>
           THEN /\ files' = <<>>
                /\ run' = [r EXCEPT !.active = FALSE, !.i = 0]
                /\ report' = MakeReport(ftp, <<>>)
                /\ isProcessing' = FALSE
           ELSE /\ BeginFile(r, FileItems(ftp))
                /\ isProcessing' = TRUE
                /\ UNCHANGED report
    /\ UNCHANGED <<mounted, hasUser, cs, inflight, sent, runs, last, backVars,
                   s3Files, selectedFiles, isLoadingFiles, selectedSection>>

\* eventSource.onmessage: an error message closes the stream and marks the
\* row, a result message keeps the result and closes the stream, a progress
\* message updates the row, anything else (unparsable data too) is ignored
DocumentParser_onmessage ==
    /\ mounted = "DocumentParser"
    /\ run.active
    /\ run.stream = "open"
    /\ \E data \in {"error", "result", "progress", "other"} :
      \E chunks_created \in (IF data = "result" THEN ChunkCounts ELSE {NoNum}) :
        CASE data = "error" ->
               /\ files' = SetFile(files, run.i, "error", files[run.i].progress)
               /\ run' = [run EXCEPT !.stream = "closed", !.sources = @ - 1,
                            !.opened = @ \o Reconnect(CurrentFile(run, s3Files, selectedFiles))]
          [] data = "result" ->
               /\ run' = [run EXCEPT !.stream = "closed", !.parseResult = TRUE,
                            !.chunks = chunks_created, !.sources = @ - 1,
                            !.resultFor = @ \cup {[i |-> run.i, chunks_created |-> chunks_created]},
                            !.opened = @ \o Reconnect(CurrentFile(run, s3Files, selectedFiles))]
               /\ UNCHANGED files
          [] data = "progress" ->
               /\ files' = SetFile(files, run.i, files[run.i].status, 50)
               /\ UNCHANGED run
          [] OTHER -> UNCHANGED <<files, run>>
    /\ UNCHANGED <<compVars, backVars, s3Files, selectedFiles, isProcessing,
                   isLoadingFiles, report, selectedSection>>

\* eventSource.onerror: the stream is closed and, no result being held, the
\* row is marked
DocumentParser_onerror ==
    /\ mounted = "DocumentParser"
    /\ run.active
    /\ run.stream = "open"
    /\ run' = [run EXCEPT !.stream = "closed", !.sources = @ - 1,
                 !.opened = @ \o Reconnect(CurrentFile(run, s3Files, selectedFiles))]
    /\ files' = IF run.parseResult THEN files
                ELSE SetFile(files, run.i, "error", files[run.i].progress)
    /\ UNCHANGED <<compVars, backVars, s3Files, selectedFiles, isProcessing,
                   isLoadingFiles, report, selectedSection>>

\* the interval finds the stream closed: the row and the results entry are
\* written, then the next file begins or the report is set
DocumentParser_checkInterval ==
    /\ mounted = "DocumentParser"
    /\ run.active
    /\ ReadyStateClosed(run.stream)
    /\ LET status == IF run.parseResult THEN "success" ELSE "error"
           set == SetFile(files, run.i, status, IF run.parseResult THEN 100 ELSE 0)
           fs == IF run.parseResult THEN WithResult(set, run.i, run.chunks) ELSE set
           results == Append(run.results,
                         [key |-> CurrentFile(run, s3Files, selectedFiles),
                          status |-> status,
                          chunks |-> IF run.parseResult THEN run.chunks ELSE NoNum])
           r == [run EXCEPT !.results = results]
       IN  IF run.i < Len(run.filesToProcess)
           THEN /\ BeginFile([r EXCEPT !.i = @ + 1], fs)
                /\ UNCHANGED <<report, isProcessing>>
           ELSE /\ files' = fs
                /\ run' = [r EXCEPT !.active = FALSE, !.stream = "none"]
                /\ report' = MakeReport(run.filesToProcess, results)
                /\ isProcessing' = FALSE
    /\ UNCHANGED <<compVars, backVars, s3Files, selectedFiles, isLoadingFiles,
                   selectedSection>>

\* the server side stands still while a component is on screen
InitComp ==
    /\ ClientIdle
    /\ JwtIdle
    /\ StoreIdle
    /\ env = [BACKEND_URL |-> <<"http://backend:8000">>, NEXT_PUBLIC_BACKEND_URL |-> <<>>]
    /\ now = 0
    /\ cookie = NoCookie
    /\ auth = NoAuth
    /\ page = NoPage
    /\ accepted = {}
    /\ px = NoPx
    /\ rt = NoRt

NextComp ==
    \/ Review_Mount
    \/ Review_fetchFilesDone
    \/ Review_handleDelete
    \/ Review_handleDeleteDone
    \/ SectionFilePreview_Mount
    \/ SectionFilePreview_fetchFilesDone
    \/ SectionFilePreview_handleDelete
    \/ SectionFilePreview_handleDeleteDone
    \/ StudentInvitations_Mount
    \/ StudentInvitations_loadInvitesDone
    \/ StudentInvitations_handleAction
    \/ StudentInvitations_handleActionDone
    \/ OrgInvitations_Mount
    \/ OrgInvitations_loadInvitesDone
    \/ OrgInvitations_handleSearch
    \/ OrgInvitations_handleSearchDone
    \/ OrgInvitations_handleInvite
    \/ OrgInvitations_handleInviteDone
    \/ OrgInvitations_handleInviteRefreshDone
    \/ Upload_Mount
    \/ Upload_existingDone
    \/ Upload_onSelect
    \/ Upload_handleSubmit
    \/ Upload_onprogress
    \/ Upload_handleSubmitDone
    \/ ActivityUpload_handleVoiceUpload
    \/ ActivityUpload_handleVoiceUploadDone
    \/ ActivityUpload_handleVoiceRefreshDone
    \/ DocumentParser_Mount
    \/ DocumentParser_loadS3Files
    \/ DocumentParser_setSelectedSection
    \/ DocumentParser_loadS3FilesDone
    \/ DocumentParser_toggleFileSelection
    \/ DocumentParser_selectAll
    \/ DocumentParser_deselectAll
    \/ DocumentParser_processSelectedFiles
    \/ DocumentParser_onmessage
    \/ DocumentParser_onerror
    \/ DocumentParser_checkInterval

SpecComp == InitComp /\ [][NextComp]_vars

\* the parser alone
NextParse ==
    \/ DocumentParser_Mount
    \/ DocumentParser_loadS3Files
    \/ DocumentParser_setSelectedSection
    \/ DocumentParser_loadS3FilesDone
    \/ DocumentParser_toggleFileSelection
    \/ DocumentParser_selectAll
    \/ DocumentParser_deselectAll
    \/ DocumentParser_processSelectedFiles
    \/ DocumentParser_onmessage
    \/ DocumentParser_onerror
    \/ DocumentParser_checkInterval

\* the open stream delivers what closes it: a result message, an error
\* message or a connection error
StreamCloses ==
    \/ DocumentParser_onmessage /\ run'.stream = "closed"
    \/ DocumentParser_onerror

\* every open stream is closed in the end by what it delivers, and the
\* 100 ms interval keeps firing while the run waits
SpecParseFair ==
    /\ InitComp
    /\ [][NextParse]_vars
    /\ WF_vars(StreamCloses)
    /\ WF_vars(DocumentParser_checkInterval)

----------------------------------------------------------------------------
(* lib/user-store: every await of ensureFile, readUsers, writeUsers is a   *)
(* step, so calls made at the same time interleave between their file     *)
(* operations.  A user is written by its email.                            *)

AddCallers == {"c1", "c2"}
LookupCaller == "c3"

NewEmails == {"Kim@School.edu", "lee@school.edu"}
OldEmail == "old@school.edu"

\* email.toLowerCase()
Lower(e) == IF e = "Kim@School.edu" THEN "kim@school.edu" ELSE e

\* users.find(u => u.email.toLowerCase() === email.toLowerCase()) || null
Find(users, email) ==
    LET hits == {j \in DOMAIN users : Lower(users[j]) = Lower(email)}
    IN  IF hits = {} THEN Null
        ELSE users[CHOOSE j \in hits : \A k \in hits : j <= k]

StoreUnchangedElse == UNCHANGED <<serverVars, clientVars, jwtVars>>

\* addUser(user) is called: readUsers begins with ensureFile
addUser ==
    /\ \E c \in AddCallers, user \in NewEmails :
          /\ us[c].pc = "idle"
          /\ us' = [us EXCEPT ![c] = [pc |-> "read_ensure", user |-> user,
                                       users |-> <<>>]]
    /\ UNCHANGED <<file, lookup>>
    /\ StoreUnchangedElse

\* getUserByEmail(email) is called: readUsers begins with ensureFile
getUserByEmail ==
    /\ \E email \in {"kim@school.edu", "lee@school.edu", OldEmail} :
          /\ us[LookupCaller].pc \in {"idle", "done"}
          /\ us' = [us EXCEPT ![LookupCaller] =
                        [pc |-> "read_ensure", user |-> email, users |-> <<>>]]
    /\ UNCHANGED <<file, lookup>>
    /\ StoreUnchangedElse

\* ensureFile, the try block: fs.access finds the file or throws
ensureFile ==
    /\ \E c \in Callers :
          /\ us[c].pc \in {"read_ensure", "write_ensure"}
          /\ us' = [us EXCEPT ![c].pc =
                      IF file.content = Missing
                      THEN (IF us[c].pc = "read_ensure" THEN "read_create"
                            ELSE "write_create")
                      ELSE (IF us[c].pc = "read_ensure" THEN "read" ELSE "write")]
    /\ UNCHANGED <<file, lookup>>
    /\ StoreUnchangedElse

\* ensureFile, the catch block: fs.writeFile(dataFile, '[]')
ensureFileCreate ==
    /\ \E c \in Callers :
          /\ us[c].pc \in {"read_create", "write_create"}
          /\ us' = [us EXCEPT ![c].pc =
                      IF us[c].pc = "read_create" THEN "read" ELSE "write"]
          /\ file' = [file EXCEPT !.content = <<>>]
    /\ UNCHANGED lookup
    /\ StoreUnchangedElse

\* readUsers after ensureFile: the file is read and parsed; addUser pushes
\* its user and goes on to writeUsers, getUserByEmail returns what it finds
readUsers ==
    /\ \E c \in Callers :
          /\ us[c].pc = "read"
          /\ file.content # Missing
          /\ IF c = LookupCaller
             THEN /\ us' = [us EXCEPT ![c].pc = "done", ![c].users = file.content]
                  /\ lookup' = [done |-> TRUE, email |-> us[c].user,
                                result |-> Find(file.content, us[c].user),
                                quiet |-> \A a \in AddCallers : us[a].pc = "done"]
             ELSE /\ us' = [us EXCEPT ![c].pc = "write_ensure",
                                      ![c].users = Append(file.content, us[c].user)]
                  /\ UNCHANGED lookup
    /\ UNCHANGED file
    /\ StoreUnchangedElse

\* writeUsers after ensureFile: the whole array is written
writeUsers ==
    /\ \E c \in AddCallers :
          /\ us[c].pc = "write"
          /\ file' = [file EXCEPT !.content = us[c].users]
          /\ us' = [us EXCEPT ![c].pc = "done"]
    /\ UNCHANGED lookup
    /\ StoreUnchangedElse

\* the data file is missing, empty, or holds a user stored earlier
InitStore ==
    /\ ClientIdle
    /\ JwtIdle
    /\ env = [BACKEND_URL |-> <<"http://backend:8000">>, NEXT_PUBLIC_BACKEND_URL |-> <<>>]
    /\ now = 0
    /\ cookie = NoCookie
    /\ auth = NoAuth
    /\ page = NoPage
    /\ accepted = {}
    /\ px = NoPx
    /\ rt = NoRt
    /\ file \in {[content |-> Missing, before |-> <<>>],
                 [content |-> <<>>, before |-> <<>>],
                 [content |-> <<OldEmail>>, before |-> <<OldEmail>>]}
    /\ us = [c \in Callers |-> NoCall]
    /\ lookup = NoLookup

NextStore ==
    \/ addUser
    \/ getUserByEmail
    \/ ensureFile
    \/ ensureFileCreate
    \/ readUsers
    \/ writeUsers

SpecStore == InitStore /\ [][NextStore]_vars

----------------------------------------------------------------------------
(* Claims about sign-in *)

\* C3: a credentials sign-in yields a user only if the input passes the
\* credentials schema, the backend login call answered OK, and the role
\* (student when absent) matches the requested login type (student when
\* absent): student only with role student, org only with role org_admin or
\* org_staff; in every other case authorize returns null and no session is
\* created.
C3_AuthorizeOnlyWhenAllowed ==
    auth.done =>
        LET loginType == IF auth.raw.login_type = Undefined
                         THEN "student" ELSE auth.raw.login_type
            role == IF auth.ans.body.role \in {Null, Undefined}
                    THEN "student" ELSE auth.ans.body.role
            schemaPasses ==
                /\ auth.raw.email \in WellFormedEmails
                /\ Len(auth.raw.password) >= 6
                /\ auth.raw.remember \in {Undefined, "true", "false"}
                /\ auth.raw.login_type \in {Undefined, "student", "org"}
            allowed ==
                /\ schemaPasses
                /\ auth.ans.kind = "ok"
                /\ loginType = "student" => role = "student"
                /\ loginType = "org" => role \in {"org_admin", "org_staff"}
        IN  /\ auth.user.ok => allowed
            /\ ~allowed => (~auth.user.ok /\ ~auth.created)
            /\ auth.created => auth.user.ok

C3_Witness ==
    /\ auth.done /\ auth.user.ok /\ auth.created
    /\ auth.raw.login_type = "org"
    /\ auth.user.role = "org_staff"
    /\ cookie.role = "org_staff"

\* C4: content under /org/* (the org layout and the org student detail page)
\* is rendered only for a session whose role is org_admin or org_staff; with
\* no session the request is redirected to /auth/login, with any other role
\* (an absent role counts as student) to '/'; and the home page never renders
\* the student home for an org role but redirects to /org/dashboard.
C4_OrgContentOnlyForOrgRoles ==
    LET orgRole == page.present /\ page.role \in {"org_admin", "org_staff"}
        orgPage == page.name \in {"OrgRootLayout", "OrgStudentDetailPage"}
    IN  /\ (orgPage /\ page.outcome \in {"org-layout", "student-detail",
                                         "student-not-found", "redirect:/org/students"})
              => orgRole
        /\ (orgPage /\ ~page.present) => page.outcome = "redirect:/auth/login"
        /\ (orgPage /\ page.present /\ ~orgRole) => page.outcome = "redirect:/"
        /\ (page.name = "HomePage" /\ orgRole) => page.outcome = "redirect:/org/dashboard"
        /\ (page.name = "HomePage" /\ page.outcome = "student-home") => ~orgRole

C4_Witness ==
    /\ page.name = "OrgStudentDetailPage"
    /\ page.outcome = "student-detail"
    /\ page.role = "org_staff"

\* C5: an organization user can view or manage a student's data (the org
\* student detail page with that student's files) only for students who have
\* accepted that organization's invitation.
C5_OnlyAcceptedStudents ==
    (page.name = "OrgStudentDetailPage" /\ page.outcome = "student-detail")
        => <<page.orgId, page.student>> \in accepted

----------------------------------------------------------------------------
(* Claims about the proxy and the server routes *)

\* C1: for every request with method GET, POST, PUT, PATCH, DELETE or OPTIONS
\* to /api/backend/<path>?<query> the proxy sends exactly one request with the
\* same method to <BACKEND_URL with one trailing slash removed>/<path>?<query>
\* (the bare base when <path> is empty), and answers the caller with the
\* backend's HTTP status.
C1_ProxyForwardsOnce ==
    (px.handled /\ env.BACKEND_URL # <<>>) =>
        LET b == env.BACKEND_URL
            base == IF b[Len(b)] = "/" THEN SubSeq(b, 1, Len(b) - 1) ELSE b
            segs == px.req.path
            path == IF segs = <<>> THEN <<>>
                    ELSE [i \in 1..(2 * Len(segs) - 1) |->
                             IF i % 2 = 1 THEN segs[(i + 1) \div 2] ELSE "/"]
            target == (IF segs = <<>> THEN base ELSE base \o <<"/">> \o path)
                         \o px.req.search
        IN  /\ Len(px.sent) = 1
            /\ px.sent[1].method = px.req.method
            /\ px.sent[1].url = target
            /\ px.backend = "answered" =>
                  (px.result = "response" /\ px.status = px.backendStatus)

C1_Witness ==
    /\ px.handled
    /\ env.BACKEND_URL = <<"http://backend:8000", "/", "/">>
    /\ px.req.method = "DELETE"
    /\ px.req.path = <<"api", "user">>
    /\ px.req.search = <<"?id=1">>
    /\ px.sent[1].url = <<"http://backend:8000", "/", "/", "api", "/", "user", "?id=1">>
    /\ px.status = 401

\* C2 as stated: whenever the server session holds a non-null access token,
\* the forwarded request carries authorization = 'Bearer <that token>',
\* replacing any authorization header the caller supplied.
C2_AsStated ==
    (px.handled /\ px.sess = "ok" /\ px.sessionToken # Null) =>
        /\ px.sent[1].headers["authorization"] = "Bearer " \o px.sessionToken
        /\ px.req.headers["authorization"] # Absent =>
              px.sent[1].headers["authorization"] # px.req.headers["authorization"]

\* C2 (amended): whenever the server session holds a non-empty access token,
\* the forwarded request carries authorization = 'Bearer <that token>',
\* replacing any authorization header the caller supplied; the forwarded
\* token is then never the caller's.
C2_BearerFromSession ==
    (px.handled /\ px.sess = "ok" /\ px.sessionToken \notin {Null, ""}) =>
        /\ px.sent[1].headers["authorization"] = "Bearer " \o px.sessionToken
        /\ px.req.headers["authorization"] # Absent =>
              px.sent[1].headers["authorization"] # px.req.headers["authorization"]

C2_Witness ==
    /\ px.handled /\ px.sess = "ok"
    /\ px.sessionToken = "at2"
    /\ px.req.headers["authorization"] = "Bearer caller"
    /\ px.sent[1].headers["authorization"] = "Bearer at2"

\* C8: every server route handler that calls the backend (token login, token
\* refresh, register, and the /api/backend proxy) catches a failed backend
\* call within that request and answers with an HTTP 500 response instead of
\* letting the error escape the handler.
C8_BackendFailureAnswered500 ==
    /\ (rt.handler # "none" /\ rt.backend = "neterr") =>
          (rt.result = "response" /\ rt.status = 500)
    /\ (px.handled /\ px.backend = "neterr") =>
          (px.result = "response" /\ px.status = 500)

\* C17: when the session has no access token, or the session lookup throws,
\* the proxy still sends the request to the backend, with the caller's
\* headers, a caller-supplied authorization header included, unchanged except
\* that host and content-length are removed.
C17_ForwardedWithoutSessionToken ==
    (px.handled /\ (px.sess \in {"none", "threw"} \/ ~Truthy(px.sessionToken))) =>
        /\ Len(px.sent) = 1
        /\ px.sent[1].url = TargetUrl(env, px.req)
        /\ px.sent[1].method = px.req.method
        /\ \A h \in HeaderNames :
              px.sent[1].headers[h] =
                  IF h \in {"host", "content-length"} THEN Absent
                  ELSE px.req.headers[h]

C17_Witness ==
    /\ px.handled
    /\ px.sess = "threw"
    /\ px.req.method = "POST"
    /\ px.req.headers["authorization"] = "Bearer caller"
    /\ px.req.headers["content-length"] = "12"
    /\ px.sent[1].headers["authorization"] = "Bearer caller"
    /\ px.sent[1].headers["content-length"] = Absent

----------------------------------------------------------------------------
(* Claims about the client components *)

C9_OneStreamPerFile ==
    run.started =>
        LET ConnectionsTo(key) ==
                Cardinality({j \in DOMAIN run.opened : run.opened[j] = key})
        IN
        /\ \A key \in Keys :
              ConnectionsTo(key) =
                  IF \E j \in 1..run.i : run.filesToProcess[j] = key
                  THEN 1 ELSE 0
        /\ ~run.active => run.i = Len(run.filesToProcess)
                          \/ run.filesToProcess = <<>>

\* a run over two files has finished, one stream closed without a result
\* and one with a result
C9_Witness ==
    /\ run.started
    /\ ~run.active
    /\ Len(run.filesToProcess) = 2
    /\ \E j \in DOMAIN run.results : run.results[j].status = "error"
    /\ \E j \in DOMAIN run.results : run.results[j].status = "success"

\* C10: a run processes the files that were selected and listed when it
\* began, in list order, whatever is toggled, selected, deselected, filtered
\* or reloaded meanwhile: the streams opened so far are the first of those
\* files, the rows are those files, and a finished run has gone through all
\* of them.
C10_RunFixedAtStart ==
    run.started =>
        LET planned == FilesToProcess(run.listed, run.selected)
        IN  /\ Len(run.opened) <= Len(planned)
            /\ run.opened = SubSeq(planned, 1, Len(run.opened))
            /\ [j \in DOMAIN files |-> files[j].key] = planned
            /\ [j \in DOMAIN run.results |-> run.results[j].key]
                   = SubSeq(planned, 1, Len(run.results))
            /\ run.active => isProcessing
            /\ ~run.active =>
                   /\ run.opened = planned
                   /\ Len(run.results) = Len(planned)
                   /\ report.present /\ report.total_files = Len(planned)

\* a run over two files has finished although the list was reloaded and the
\* selection emptied while it ran
C10_Witness ==
    /\ run.started
    /\ ~run.active
    /\ Len(run.opened) = 2
    /\ selectedFiles = {}
    /\ s3Files # run.listed

\* C18: a parse run begins a file only when the streams of the files before
\* it have closed and their rows are settled, and no run begins while one is
\* in progress: isProcessing is true exactly while a run is under way, at
\* most one event stream is open, and at most one row is 'processing'.
C18_OneFileAtATime ==
    /\ run.sources <= 1
    /\ (run.sources = 1) = (run.active /\ run.stream = "open")
    /\ Cardinality({j \in DOMAIN files : files[j].status = "processing"}) <= 1
    /\ isProcessing = run.active
    /\ run.active =>
          /\ Len(run.results) = run.i - 1
          /\ \A j \in DOMAIN files :
                /\ j < run.i => files[j].status \in {"success", "error"}
                /\ j > run.i => files[j].status = "pending"
    /\ (run.started /\ ~run.active) => report.present

\* the second file of a run is being processed, the first one's stream
\* having closed with a result
C18_Witness ==
    /\ run.active
    /\ isProcessing
    /\ run.i = 2
    /\ run.stream = "open"
    /\ run.sources = 1
    /\ files[1].status = "success"
    /\ files[2].status = "processing"

\* C19: every started parse run finishes, with every row 'success' or
\* 'error', a report set and isProcessing false again; and a step that leaves
\* the stream open (a progress message, a message that is not understood, or
\* anything else the user does meanwhile) leaves the file in processing: the
\* loop index, the results, the row's status, isProcessing and the report
\* are as before.
C19_RunFinishes ==
    /\ run.active ~>
          (/\ ~run.active
           /\ report.present
           /\ ~isProcessing
           /\ Len(files) = Len(run.filesToProcess)
           /\ \A j \in DOMAIN files : files[j].status \in {"success", "error"})
    /\ [][
          ((run.active /\ run.stream = "open" /\ run'.stream = "open") =>
              /\ run'.active
              /\ run'.i = run.i
              /\ run'.results = run.results
              /\ files'[run.i].status = files[run.i].status
              /\ files[run.i].status = "processing"
              /\ isProcessing'
              /\ report' = report)
       ]_vars

\* a run over two files has finished after progress was reported for a file
\* whose stream then failed
C19_Witness ==
    /\ run.started
    /\ ~run.active
    /\ ~isProcessing
    /\ report.present
    /\ report.total_files = 2
    /\ report.failed = 1
    /\ \A j \in DOMAIN files : files[j].status \in {"success", "error"}

\* C20: the report of a finished run has one entry for each file of the run,
\* in the order the files were processed; successful + failed = total_files;
\* an entry is 'success' exactly when a result message was received for its
\* file; and total_chunks is the sum of chunks_created over the result
\* messages of the successful files.
C20_ReportMatchesRun ==
    (run.started /\ ~run.active) =>
        LET ftp == run.filesToProcess
            RECURSIVE Sum(_)
            Sum(ms) == IF ms = {} THEN 0
                       ELSE LET m == CHOOSE x \in ms : TRUE
                            IN  m.chunks_created + Sum(ms \ {m})
        IN  /\ report.present
            /\ Len(report.files) = Len(ftp)
            /\ \A j \in DOMAIN ftp : report.files[j].key = ftp[j]
            /\ report.total_files = Len(ftp)
            /\ report.successful + report.failed = report.total_files
            /\ \A j \in DOMAIN ftp :
                  (report.files[j].status = "success")
                      = (\E m \in run.resultFor : m.i = j)
            /\ report.successful =
                  Cardinality({j \in DOMAIN ftp : \E m \in run.resultFor : m.i = j})
            /\ report.total_chunks = Sum(run.resultFor)

\* a run over two files has finished: the first file's stream failed, the
\* second delivered a result of two chunks
C20_Witness ==
    /\ run.started
    /\ ~run.active
    /\ Len(run.filesToProcess) = 2
    /\ report.files[1].status = "error"
    /\ report.files[2].status = "success"
    /\ report.successful = 1
    /\ report.failed = 1
    /\ report.total_chunks = 2

\* C21: while a run is under way a row's status changes only from pending to
\* processing and from processing to success or to error, so success and
\* error are final for the run; outside a run the rows change only when a new
\* run replaces them with fresh ones; and a row is 'success' only if it holds
\* the result its stream delivered.
C21_StatusOnlyForward ==
    /\ [](\A j \in DOMAIN files :
             /\ files[j].status \in {"pending", "processing", "success", "error"}
             /\ files[j].status = "success" =>
                   \E m \in run.resultFor :
                       m.i = j /\ m.chunks_created = files[j].result)
    /\ [][
          (/\ run.active =>
                /\ DOMAIN files' = DOMAIN files
                /\ \A j \in DOMAIN files :
                      \/ files'[j].status = files[j].status
                      \/ files[j].status = "pending" /\ files'[j].status = "processing"
                      \/ /\ files[j].status = "processing"
                         /\ files'[j].status \in {"success", "error"}
           /\ ~run.active =>
                \/ files' = files
                \/ /\ run'.started
                   /\ \A j \in DOMAIN files' :
                         files'[j].status = IF j = 1 THEN "processing" ELSE "pending")
       ]_vars

\* both rows of a run are final: the first failed, the second holds a
\* result of two chunks
C21_Witness ==
    /\ run.started
    /\ Len(files) = 2
    /\ files[1].status = "error"
    /\ files[2].status = "success"
    /\ files[2].result = 2
    /\ files[2].progress = 100

\* C22: in TestingUpload and ActivityUpload an upload request is sent only
\* by a submit made with a user id in the session and a file chosen, and a
\* submit without one of them changes the error text only; the page
\* navigates only in the step that handles an upload answer of 2xx status;
\* the step that handles a non-2xx answer or a network error sets the error
\* text, navigates nowhere and keeps the chosen files; and after the answer
\* is handled uploading is false and progress is 0.
C22_UploadSubmit ==
    [][
       (mounted \in UploadComponents =>
          /\ sent'["upload"] # sent["upload"] =>
                /\ hasUser
                /\ cs.chosen > 0
                /\ ~cs.uploading
                /\ sent'["upload"] = sent["upload"] + 1
                /\ cs' = [cs EXCEPT !.error = Null, !.uploading = TRUE]
          /\ (cs'.error \in {"Missing user id in session",
                              "Please select at least one file"}
                /\ cs'.error # cs.error) =>
                /\ ~hasUser \/ cs.chosen = 0
                /\ cs' = [cs EXCEPT !.error = cs'.error]
                /\ sent' = sent
                /\ inflight' = inflight
          /\ cs'.nav # cs.nav =>
                /\ inflight'["upload"] = inflight["upload"] - 1
                /\ last'.kind = "upload"
                /\ last'.answer.status = "ok"
                /\ cs'.nav = NextRoute(mounted)
          /\ inflight'["upload"] < inflight["upload"] =>
                /\ last'.kind = "upload"
                /\ ~cs'.uploading
                /\ cs'.progress = 0
                /\ cs'.chosen = cs.chosen
                /\ sent' = sent
                /\ IF last'.answer.status = "ok"
                   THEN cs'.nav = NextRoute(mounted) /\ cs'.error = cs.error
                   ELSE /\ cs'.nav = cs.nav
                        /\ cs'.nav = Null
                        /\ cs'.error = IF last'.answer.status = "notok"
                                       THEN "Upload failed" ELSE "Network error")
    ]_vars

\* an activity upload of one chosen file was answered with a non-2xx status
C22_Witness ==
    /\ mounted = "ActivityUpload"
    /\ last.kind = "upload"
    /\ last.answer.status = "notok"
    /\ sent["upload"] = 1
    /\ inflight["upload"] = 0
    /\ cs.error = "Upload failed"
    /\ cs.chosen = 1
    /\ cs.nav = Null
    /\ ~cs.uploading
    /\ cs.progress = 0

\* the components whose list is a file or invitation list under review
ListComponents ==
    ReviewComponents \cup {"SectionFilePreview", "StudentInvitationsPage"}

\* C11: in ActivityReview, AllFilesReview, SectionFilePreview and the
\* student invitations page the list changes only in the step that handles
\* a successful list fetch, and then it is that fetch's payload; the step
\* that handles a delete or accept/reject answer leaves the list as it is
\* and, exactly when the answer was a success, sends one new list fetch.
C11_ListsReplacedWholesale ==
    [][(mounted \in ListComponents =>
        /\ cs'.list # cs.list =>
              /\ inflight'["list"] = inflight["list"] - 1
              /\ last'.kind = "list"
              /\ ~last'.failed
              /\ cs'.list = last'.answer.files
        /\ \A k \in {"delete", "accept", "reject"} :
              inflight'[k] < inflight[k] =>
                  /\ cs'.list = cs.list
                  /\ last'.kind = k
                  /\ inflight'["list"] =
                        inflight["list"] + (IF last'.failed THEN 0 ELSE 1)
                  /\ sent'["list"] =
                        sent["list"] + (IF last'.failed THEN 0 ELSE 1))
    ]_vars

\* a delete has succeeded in SectionFilePreview: the list still holds its
\* files and the new list fetch is on its way
C11_Witness ==
    /\ mounted = "SectionFilePreview"
    /\ last.kind = "delete"
    /\ ~last.failed
    /\ cs.list > 0
    /\ inflight["list"] = 1
    /\ sent["list"] = 2

----------------------------------------------------------------------------
(* Claims about the jwt callback *)

\* C12: refreshes are not mutually excluded: every jwt callback that finds
\* its token near expiry sends its own refresh call, carrying its token's
\* refresh token, also while another callback waits for the answer to a
\* call with the same token; so the calls sent are as many as the callbacks
\* that needed one.
C12_RefreshNotExcluded ==
    /\ \A h \in Handlers :
          jw[h].pc = "waiting" => jw[h].sent = jw[h].token.refreshToken
    /\ jl.refreshes = jl.needed

\* two callbacks ran on the same token and each sent a refresh call with
\* the same refresh token; one has got its answer while the other waits
C12_Witness ==
    /\ jl.refreshes = 2
    /\ jl.end.refreshed
    /\ jl.end.concurrent
    /\ \E h \in Handlers :
          /\ jw[h].pc = "waiting"
          /\ jw[h].token = jl.end.before
          /\ jw[h].sent = "rt1"
          /\ jl.end.before.refreshToken = "rt1"

\* C14: a refresh call that got a non-OK answer or a network error returns
\* a token with accessToken null and accessTokenExpires 0, whose session
\* has accessToken null; and a jwt callback that begins on such a token
\* sends no refresh call.
C14_FailedRefreshIsFinal ==
    /\ (jl.end.refreshed /\ jl.end.ans.kind \in {"notok", "neterr"}) =>
          /\ jl.end.after.accessToken = Null
          /\ jl.end.after.accessTokenExpires = 0
          /\ session(jl.end.after).accessToken = Null
    /\ (/\ jl.calls > 0
        /\ jl.start.token.accessToken = Null
        /\ jl.start.token.accessTokenExpires = 0) => ~jl.start.sent

\* a failed refresh was stored as the cookie and the next jwt callback has
\* begun on it, sending nothing
C14_Witness ==
    /\ jl.calls = 2
    /\ jl.refreshes = 1
    /\ cookie.accessToken = Null
    /\ cookie.accessTokenExpires = 0
    /\ jl.start.token = cookie
    /\ ~jl.start.sent
    /\ \A h \in Handlers : jw[h].pc = "idle"

\* C15: the jwt callback sends a refresh call exactly when its token has an
\* expiry time that is present and not 0 and the current time is later
\* than that time minus 60 seconds.
C15_RefreshExactlyWhenDue ==
    jl.calls > 0 =>
        (jl.start.sent <=>
            /\ jl.start.token.accessTokenExpires # NoNum
            /\ jl.start.token.accessTokenExpires # 0
            /\ jl.start.t > jl.start.token.accessTokenExpires - 60 * 1000)

\* a callback began exactly 60 seconds before its token's expiry and sent
\* nothing
C15_Witness ==
    /\ jl.calls > 0
    /\ jl.start.token.accessTokenExpires > 0
    /\ jl.start.t = jl.start.token.accessTokenExpires - 60 * 1000
    /\ ~jl.start.sent

\* C16: a refresh, successful or failed, returns the token it was given
\* with at most accessToken, refreshToken and accessTokenExpires changed,
\* so the session's id, role and orgId are the same before and after; on
\* success the refresh token is the one the backend returned, or the
\* previous one when it returned none; on failure it is the previous one.
C16_RefreshKeepsIdentity ==
    jl.end.refreshed =>
        LET b == jl.end.before
            a == jl.end.after
        IN  /\ [a EXCEPT !.accessToken = b.accessToken,
                         !.refreshToken = b.refreshToken,
                         !.accessTokenExpires = b.accessTokenExpires] = b
            /\ a.sub = b.sub /\ a.role = b.role /\ a.orgId = b.orgId
            /\ session(a).id = session(b).id
            /\ session(a).role = session(b).role
            /\ session(a).orgId = session(b).orgId
            /\ a.refreshToken =
                  IF jl.end.ans.kind = "ok" /\ jl.end.ans.body.refresh_token # Undefined
                  THEN jl.end.ans.body.refresh_token
                  ELSE b.refreshToken

\* a successful refresh whose answer had no refresh token: the org admin's
\* token keeps its refresh token and its identity
C16_Witness ==
    /\ jl.end.refreshed
    /\ jl.end.ans.kind = "ok"
    /\ jl.end.ans.body.refresh_token = Undefined
    /\ jl.end.after.accessToken = "at2"
    /\ jl.end.after.refreshToken = "rt1"
    /\ jl.end.after.sub = "u1"
    /\ jl.end.after.role = "org_admin"
    /\ jl.end.after.orgId = "org1"

----------------------------------------------------------------------------
(* Claims about the user store *)

\* C13: once both addUser calls have completed, the data file holds both
\* added users and every user it held before, and a getUserByEmail made
\* after that finds the user it asks for when that user is one of them.
C13_BothUsersStored ==
    (\A c \in AddCallers : us[c].pc = "done") =>
        LET expected ==
                {us[c].user : c \in AddCallers}
                    \cup {file.before[j] : j \in DOMAIN file.before}
        IN  /\ file.content # Missing
            /\ \A u \in expected :
                  \E j \in DOMAIN file.content : file.content[j] = u
            /\ (lookup.done /\ lookup.quiet) =>
                  \A u \in expected :
                      Lower(u) = Lower(lookup.email) => lookup.result # Null
====
